---- MODULE Spec2Model ----
(***************************************************************************)
(* Transport & Sales Dashboard (src/app.py).                               *)
(*                                                                         *)
(* The program is one Streamlit script.  Streamlit runs it from the first  *)
(* line to the last on every user interaction (a file put into the         *)
(* uploader, a change of a filter widget); an uncaught exception ends the  *)
(* run at the line that raised it and what the run had rendered so far     *)
(* stays on the page.  One run is modelled by the operator Script, built   *)
(* from one operator per block of the script, in the script's order.       *)
(*                                                                         *)
(* A table (a pandas DataFrame) is [columns |-> set of column names,       *)
(* rows |-> sequence of [index |-> row label, cells |-> function from      *)
(* the column names to the cell values]].  Column headers of the workbook  *)
(* are Thai text in the source; the module names them by ASCII stand-ins   *)
(* (MX02_assign_date, ...), which are opaque keys of COLUMN_MAP.           *)
(*                                                                         *)
(* Numbers that pandas holds as floats are kept exact: a mean or a         *)
(* percentage is the pair [num, den] of its numerator and denominator,     *)
(* den = 0 standing for the float NaN that 0/0 gives.                      *)
(***************************************************************************)
EXTENDS Integers, Sequences, FiniteSets, TLC

(***************************************************************************)
(* Bounds of the model.                                                    *)
(***************************************************************************)
MaxRows == 2
MaxDate == 2
MaxCost == 2
MaxCount == 1

(***************************************************************************)
(* Cell values.  Text is a cell holding text that is neither a date nor a  *)
(* number; NaT and NaN are pandas' missing values.                          *)
(***************************************************************************)
Text == -2
NaT == -1
NaN == -1
NullRoute == "<NA>"
RouteOrder == <<"A", "B">>
RouteNames == {RouteOrder[i] : i \in DOMAIN RouteOrder}
TOP_N == 10

Dates == 1..MaxDate
\* st.date_input offers days before and after the default range
WidgetDates == 0..(MaxDate + 1)
\* job identifiers
JobIds == {101, 102}

NoError == "ok"

(***************************************************************************)
(* The state.  uploaded_file is what st.sidebar.file_uploader returns:     *)
(* <<>> for None, <<f>> for the workbook f.  date_range and route_filter   *)
(* are the values the two filter widgets hold.  page is what the last run  *)
(* of the script left.  pc is where the script is: "stop" at st.stop() of  *)
(* line 29, "run" with a run due, "done" with the last run ended.  before  *)
(* is a history variable: the number of rows df held at the end of the     *)
(* run before the last one, <<n>>, when both ran on the same upload and    *)
(* the earlier one raised nothing; <<>> otherwise.                         *)
(***************************************************************************)
VARIABLES uploaded_file, date_range, route_filter, page, pc, before

vars == <<uploaded_file, date_range, route_filter, page, pc, before>>

(***************************************************************************)
(* COLUMN_MAP, src/app.py 11-21.                                           *)
(***************************************************************************)
COLUMN_MAP ==
    [MX02_assign_date     |-> "assign_date",
     job_id               |-> "job_id",
     MX12_num_deliveries  |-> "num_deliveries",
     MX12_num_items       |-> "num_items",
     MX12_total_cost      |-> "total_cost",
     MX12_additional_cost |-> "additional_cost",
     MX12_route_name      |-> "route_name",
     MX12_success_count   |-> "success_count",
     MX12_fail_count      |-> "fail_count"]

KnownHeaders == DOMAIN COLUMN_MAP

(***************************************************************************)
(* Helpers on tables.                                                      *)
(***************************************************************************)
\* df[c] = values: the column is added or replaced, one value per row
SetColumn(df, c, values) ==
    [columns |-> df.columns \cup {c},
     rows    |-> [i \in DOMAIN df.rows |->
                    [index |-> df.rows[i].index,
                     cells |-> [k \in df.columns \cup {c} |->
                                  IF k = c THEN values[i]
                                           ELSE df.rows[i].cells[k]]]]]

\* df[mask]: the rows whose entry of the boolean mask is true, in order,
\* each with its label
SelectRows(df, mask) ==
    LET kept == SelectSeq([i \in DOMAIN df.rows |-> i], LAMBDA i : mask[i])
    IN [columns |-> df.columns,
        rows    |-> [k \in DOMAIN kept |-> df.rows[kept[k]]]]

RECURSIVE SumSeq(_)
SumSeq(s) == IF s = <<>> THEN 0 ELSE Head(s) + SumSeq(Tail(s))

\* Series.sum(): missing values are skipped, the empty sum is 0
ColSum(df, c) ==
    SumSeq([i \in DOMAIN df.rows |->
              IF df.rows[i].cells[c] = NaN THEN 0 ELSE df.rows[i].cells[c]])

\* Series.count(): the cells that are not missing
ColCount(df, c) ==
    Cardinality({i \in DOMAIN df.rows : df.rows[i].cells[c] # NaN})

\* Series.mean(): sum / count of the cells that are not missing; 0/0 is NaN
ColMean(df, c) == [num |-> ColSum(df, c), den |-> ColCount(df, c)]

\* Series.nunique(): the distinct values that are not missing
ColNUnique(df, c) ==
    Cardinality({df.rows[i].cells[c] : i \in DOMAIN df.rows} \ {NaN})

SetMin(S) == CHOOSE x \in S : \A y \in S : x <= y
SetMax(S) == CHOOSE x \in S : \A y \in S : y <= x

\* Series.min() / Series.max() of a datetime column: NaT when no cell holds a date
ColDates(df) == {df.rows[i].cells["assign_date"] : i \in DOMAIN df.rows} \ {NaT}
ColMinDate(df) == IF ColDates(df) = {} THEN NaT ELSE SetMin(ColDates(df))
ColMaxDate(df) == IF ColDates(df) = {} THEN NaT ELSE SetMax(ColDates(df))

RECURSIVE SortedSeq(_)
SortedSeq(S) ==
    IF S = {} THEN <<>> ELSE <<SetMin(S)>> \o SortedSeq(S \ {SetMin(S)})

\* exact comparison of two means
RatLess(a, b) == a.num * b.den < b.num * a.den

(***************************************************************************)
(* Load Data, src/app.py 32-44.                                            *)
(***************************************************************************)
\* pd.read_excel: the sheet's columns and rows under a RangeIndex 0..n-1
ReadExcel(file) ==
    [columns |-> file.columns,
     rows    |-> [i \in DOMAIN file.rows |->
                    [index |-> i - 1, cells |-> file.rows[i]]]]

NewName(h) == IF h \in KnownHeaders THEN COLUMN_MAP[h] ELSE h

\* df_raw.rename(columns = the entries of COLUMN_MAP whose header is present)
Rename(df_raw) ==
    LET cols == {NewName(h) : h \in df_raw.columns}
        OldName(c) == CHOOSE h \in df_raw.columns : NewName(h) = c
    IN [columns |-> cols,
        rows    |-> [i \in DOMAIN df_raw.rows |->
                       [index |-> df_raw.rows[i].index,
                        cells |-> [c \in cols |-> df_raw.rows[i].cells[OldName(c)]]]]]

\* pd.to_datetime(errors="coerce"): a date stays, anything else becomes NaT
ToDatetime(cell) == IF cell = Text THEN NaT ELSE cell

\* pd.to_numeric(errors="coerce") then fillna(0): a number stays, text becomes 0
ToNumericFillna(cell) == IF cell = Text \/ cell = NaN THEN 0 ELSE cell

\* lines 36-37 followed by a dropna on the converted column
ConvertDate_DropNaT(df) ==
    IF "assign_date" \in df.columns
    THEN SelectRows(df, [i \in DOMAIN df.rows |-> df.rows[i].cells["assign_date"] # Text])
    ELSE df

\* lines 36-37
ConvertDate(df) ==
    IF "assign_date" \in df.columns
    THEN SetColumn(df, "assign_date",
                   [i \in DOMAIN df.rows |-> ToDatetime(df.rows[i].cells["assign_date"])])
    ELSE df

\* the right-hand side of line 40 / line 41, the column being present
CoerceCost(df, c) ==
    SetColumn(df, c, [i \in DOMAIN df.rows |-> ToNumericFillna(df.rows[i].cells[c])])

\* line 44
CostSum(df) ==
    SetColumn(df, "cost_sum",
              [i \in DOMAIN df.rows |->
                 df.rows[i].cells["total_cost"] + df.rows[i].cells["additional_cost"]])

EmptyTable == [columns |-> {}, rows |-> <<>>]
Zero == [num |-> 0, den |-> 1]

(***************************************************************************)
(* What one run of the script leaves behind.  err names the exception that *)
(* ended the run and its line (NoError: the run reached the last line);    *)
(* shown holds the outputs the run rendered, and a field of an output that *)
(* is not in shown keeps the value below.  df_loaded is df as the Load     *)
(* Data block leaves it, df is df as the Filters block leaves it.          *)
(***************************************************************************)
Blank ==
    [err              |-> NoError,
     df_loaded        |-> EmptyTable,
     df               |-> EmptyTable,
     date_asked       |-> FALSE,
     date_default     |-> <<>>,
     date_active      |-> FALSE,
     start_date       |-> NaT,
     end_date         |-> NaT,
     route_asked      |-> FALSE,
     route_options    |-> {},
     route_active     |-> FALSE,
     shown            |-> {},
     total_jobs       |-> 0,
     total_deliveries |-> 0,
     total_items      |-> 0,
     trend_df         |-> <<>>,
     total_cost_sum   |-> 0,
     avg_cost_job     |-> Zero,
     cost_breakdown   |-> <<0, 0>>,
     route_perf       |-> <<>>,
     cheapest_routes  |-> <<>>,
     cheapest_name    |-> NullRoute,
     cheapest_value   |-> Zero,
     total_success    |-> 0,
     total_fail       |-> 0,
     success_pct      |-> Zero,
     fail_pct         |-> Zero]

\* lines 33-44 on the sheet read at line 32.  df.get("total_cost", 0) is the
\* int 0 when the column is absent; pd.to_numeric(0) is that int, and an int
\* has no method fillna: line 40 (line 41 for additional_cost) raises.
Normalize(df_raw) ==
    LET df1 == ConvertDate(Rename(df_raw))
        df2 == CoerceCost(df1, "total_cost")
        df3 == CoerceCost(df2, "additional_cost")
        df4 == CostSum(df3)
    IN IF "total_cost" \notin df1.columns
       THEN [Blank EXCEPT !.err = "AttributeError@40", !.df_loaded = df1, !.df = df1]
       ELSE IF "additional_cost" \notin df2.columns
       THEN [Blank EXCEPT !.err = "AttributeError@41", !.df_loaded = df2, !.df = df2]
       ELSE [Blank EXCEPT !.df_loaded = df4, !.df = df4]

\* lines 32-44 keeping df between runs: a run on the file of the run before
\* starts from the table that run left
LoadData_Cached(file) ==
    IF pc = "done" /\ uploaded_file = <<file>> /\ "cost_sum" \in page.df.columns
    THEN [Blank EXCEPT !.df_loaded = page.df, !.df = page.df]
    ELSE Normalize(ReadExcel(file))

\* lines 32-44: every run reads the uploaded workbook again
LoadData(file) == Normalize(ReadExcel(file))

(***************************************************************************)
(* Filters, src/app.py 47-58.  ui is what the two widgets hand back in     *)
(* this run: date_range is the tuple st.date_input returns (one date while *)
(* the user is still picking the range, two once it is picked),            *)
(* route_filter the set st.multiselect returns.  st.date_input is given    *)
(* date_default = (min_date, max_date) as its value, which is (NaT, NaT)   *)
(* when no row holds a date; the source does not say what the widget does  *)
(* with that, so date_raises lets it either raise or hand back a value.    *)
(***************************************************************************)
\* line 53 with < for the second comparison
InRange_ExclusiveEnd(assign_date, start_date, end_date) ==
    /\ assign_date # NaT
    /\ assign_date >= start_date
    /\ assign_date < end_date

\* line 53: a comparison with NaT is false
InRange(assign_date, start_date, end_date) ==
    /\ assign_date # NaT
    /\ assign_date >= start_date
    /\ assign_date <= end_date

\* line 53 as the slice df[start_date:end_date], which takes rows by position
DateRows_Slice(df, start_date, end_date) ==
    [columns |-> df.columns,
     rows    |-> SubSeq(df.rows, start_date + 1,
                        IF end_date < Len(df.rows) THEN end_date ELSE Len(df.rows))]

\* line 53: df[(df["assign_date"] >= start_date) & (df["assign_date"] <= end_date)]
DateRows(df, start_date, end_date) ==
    SelectRows(df, [i \in DOMAIN df.rows |->
                      InRange(df.rows[i].cells["assign_date"], start_date, end_date)])

\* lines 48-53
DateFilter(s, ui) ==
    IF s.err # NoError \/ "assign_date" \notin s.df.columns THEN s
    ELSE LET asked == [s EXCEPT !.date_asked = TRUE,
                                !.date_default = <<ColMinDate(s.df), ColMaxDate(s.df)>>]
         IN IF ui.date_raises THEN [asked EXCEPT !.err = "ValueError@50"]
            ELSE IF Len(ui.date_range) = 2
            THEN [asked EXCEPT
                    !.date_active = TRUE,
                    !.start_date = ui.date_range[1],
                    !.end_date = ui.date_range[2],
                    !.df = DateRows(s.df, ui.date_range[1], ui.date_range[2])]
            ELSE asked

\* df["route_name"].dropna().unique()
RouteOptions(df) ==
    {df.rows[i].cells["route_name"] : i \in DOMAIN df.rows} \ {NullRoute}

\* line 58: df[df["route_name"].isin(route_filter)]
RouteRows(df, selected) ==
    SelectRows(df, [i \in DOMAIN df.rows |-> df.rows[i].cells["route_name"] \in selected])

\* lines 55-58
RouteFilter(s, ui) ==
    IF s.err # NoError \/ "route_name" \notin s.df.columns THEN s
    ELSE LET asked == [s EXCEPT !.route_asked = TRUE,
                                !.route_options = RouteOptions(s.df)]
         IN IF ui.route_filter # {}
            THEN [asked EXCEPT
                    !.route_active = TRUE,
                    !.df = RouteRows(s.df, ui.route_filter)]
            ELSE asked

Filters(s, ui) == RouteFilter(DateFilter(s, ui), ui)

(***************************************************************************)
(* Section 1: Operational Summary, src/app.py 61-84.  df['job_id'] raises  *)
(* KeyError when the column is absent; each st.metric call renders before  *)
(* the next line runs.                                                     *)
(***************************************************************************)
\* the rows of one group of df.groupby(c): those whose cell c is key
Group(df, c, key) == SelectRows(df, [i \in DOMAIN df.rows |-> df.rows[i].cells[c] = key])

\* lines 69-73: groupby drops the missing key and orders the groups by key
TrendDf(df) ==
    LET keys == SortedSeq(ColDates(df))
    IN [k \in DOMAIN keys |->
          [assign_date |-> keys[k],
           jobs        |-> ColNUnique(Group(df, "assign_date", keys[k]), "job_id"),
           deliveries  |-> ColSum(Group(df, "assign_date", keys[k]), "num_deliveries"),
           items       |-> ColSum(Group(df, "assign_date", keys[k]), "num_items")]]

Section1(s) ==
    IF s.err # NoError THEN s
    ELSE IF "job_id" \notin s.df.columns
    THEN [s EXCEPT !.err = "KeyError@64"]
    ELSE LET s1 == [s EXCEPT !.total_jobs = ColNUnique(s.df, "job_id"),
                             !.shown = @ \cup {"total_jobs"}]
    IN IF "num_deliveries" \notin s.df.columns
       THEN [s1 EXCEPT !.err = "KeyError@65"]
       ELSE LET s2 == [s1 EXCEPT !.total_deliveries = ColSum(s.df, "num_deliveries"),
                                 !.shown = @ \cup {"total_deliveries"}]
       IN IF "num_items" \notin s.df.columns
          THEN [s2 EXCEPT !.err = "KeyError@66"]
          ELSE LET s3 == [s2 EXCEPT !.total_items = ColSum(s.df, "num_items"),
                                    !.shown = @ \cup {"total_items"}]
          IN IF "assign_date" \in s.df.columns
             THEN [s3 EXCEPT !.trend_df = TrendDf(s.df),
                             !.shown = @ \cup {"trend"}]
             ELSE s3

(***************************************************************************)
(* Section 2: Cost Analysis, src/app.py 87-104.                            *)
(***************************************************************************)
Section2(s) ==
    IF s.err # NoError THEN s
    ELSE [s EXCEPT
            !.total_cost_sum = ColSum(s.df, "cost_sum"),
            !.avg_cost_job = ColMean(s.df, "cost_sum"),
            !.cost_breakdown = <<ColSum(s.df, "total_cost"),
                                 ColSum(s.df, "additional_cost")>>,
            !.shown = @ \cup {"cost"}]

(***************************************************************************)
(* Section 3: Route Performance, src/app.py 107-165.                       *)
(***************************************************************************)
\* the group keys in the order groupby gives them: sorted, the missing key dropped
RouteKeys(df) ==
    SelectSeq(RouteOrder, LAMBDA r : r \in RouteOptions(df))

\* lines 111-115 with "count" for "nunique"
RoutePerf_CountRows(df) ==
    LET keys == RouteKeys(df)
    IN [k \in DOMAIN keys |->
          [route_name |-> keys[k],
           total_jobs |-> ColCount(Group(df, "route_name", keys[k]), "job_id"),
           total_cost |-> ColSum(Group(df, "route_name", keys[k]), "cost_sum"),
           avg_cost   |-> ColMean(Group(df, "route_name", keys[k]), "cost_sum")]]

\* lines 111-115
RoutePerf(df) ==
    LET keys == RouteKeys(df)
    IN [k \in DOMAIN keys |->
          [route_name |-> keys[k],
           total_jobs |-> ColNUnique(Group(df, "route_name", keys[k]), "job_id"),
           total_cost |-> ColSum(Group(df, "route_name", keys[k]), "cost_sum"),
           avg_cost   |-> ColMean(Group(df, "route_name", keys[k]), "cost_sum")]]

\* the order of ascending=False
RECURSIVE InsertByAvgCost_Desc(_, _)
InsertByAvgCost_Desc(x, sorted) ==
    IF sorted = <<>> THEN <<x>>
    ELSE IF RatLess(Head(sorted).avg_cost, x.avg_cost) THEN <<x>> \o sorted
    ELSE <<Head(sorted)>> \o InsertByAvgCost_Desc(x, Tail(sorted))

\* x goes behind every entry that is not dearer than it: equal means keep their order
RECURSIVE InsertByAvgCost(_, _)
InsertByAvgCost(x, sorted) ==
    IF sorted = <<>> THEN <<x>>
    ELSE IF RatLess(x.avg_cost, Head(sorted).avg_cost) THEN <<x>> \o sorted
    ELSE <<Head(sorted)>> \o InsertByAvgCost(x, Tail(sorted))

\* route_perf.sort_values("avg_cost", ascending=True)
RECURSIVE SortByAvgCost(_)
SortByAvgCost(rp) ==
    IF rp = <<>> THEN <<>>
    ELSE InsertByAvgCost(rp[Len(rp)], SortByAvgCost(SubSeq(rp, 1, Len(rp) - 1)))

\* DataFrame.head(n)
HeadN(rp, n) == SubSeq(rp, 1, IF Len(rp) < n THEN Len(rp) ELSE n)

\* lines 135-137: cheapest_route.iloc[0] raises IndexError on an empty frame
Section3(s) ==
    IF s.err # NoError \/ "route_name" \notin s.df.columns THEN s
    ELSE LET rp == RoutePerf(s.df)
             cheapest_route == HeadN(SortByAvgCost(rp), 1)
             s1 == [s EXCEPT !.route_perf = rp, !.shown = @ \cup {"route_perf"}]
         IN IF cheapest_route = <<>>
            THEN [s1 EXCEPT !.err = "IndexError@136"]
            ELSE [s1 EXCEPT
                    !.cheapest_name = cheapest_route[1].route_name,
                    !.cheapest_value = cheapest_route[1].avg_cost,
                    !.cheapest_routes = HeadN(SortByAvgCost(rp), TOP_N),
                    !.shown = @ \cup {"cheapest", "rankings"}]

(***************************************************************************)
(* Section 4: Delivery Performance, src/app.py 168-185.                    *)
(***************************************************************************)
\* lines 173-174 without the "if total_deliveries else 0"
Pct_NoGuard(count, total_deliveries) ==
    [num |-> count * 100, den |-> total_deliveries]

\* lines 173-174: count / total * 100 if total else 0
Pct(count, total_deliveries) ==
    IF total_deliveries # 0
    THEN [num |-> count * 100, den |-> total_deliveries]
    ELSE Zero

Section4(s) ==
    IF \/ s.err # NoError
       \/ "success_count" \notin s.df.columns
       \/ "fail_count" \notin s.df.columns
    THEN s
    ELSE LET total_success == ColSum(s.df, "success_count")
             total_fail == ColSum(s.df, "fail_count")
             total_deliveries == total_success + total_fail
         IN [s EXCEPT
               !.total_success = total_success,
               !.total_fail = total_fail,
               !.success_pct = Pct(total_success, total_deliveries),
               !.fail_pct = Pct(total_fail, total_deliveries),
               !.shown = @ \cup {"delivery"}]

(***************************************************************************)
(* Data Table & Export, src/app.py 188-192.                                *)
(***************************************************************************)
Export(s) ==
    IF s.err # NoError THEN s ELSE [s EXCEPT !.shown = @ \cup {"table", "csv"}]

(***************************************************************************)
(* One run of the script on the uploaded file, lines 32-192.               *)
(***************************************************************************)
Script(file, ui) ==
    Export(Section4(Section3(Section2(Section1(
        Filters(LoadData(file), ui))))))

(***************************************************************************)
(* The values the widgets can hand back to a run on file.                  *)
(***************************************************************************)
\* one date while the range is being picked, or a range whose start is not
\* after its end
DateRanges ==
    {<<d>> : d \in WidgetDates}
        \cup {<<r[1], r[2]>> : r \in {x \in WidgetDates \X WidgetDates : x[1] <= x[2]}}

\* st.date_input, line 50, in a run that loaded s: not called without the
\* column; given (NaT, NaT) it raises or hands back a value
DateInputValues(s) ==
    IF s.err # NoError \/ "assign_date" \notin s.df.columns
    THEN {[date_raises |-> FALSE, date_range |-> <<>>]}
    ELSE {[date_raises |-> FALSE, date_range |-> r] : r \in DateRanges}
            \cup (IF ColMinDate(s.df) = NaT
                  THEN {[date_raises |-> TRUE, date_range |-> <<>>]}
                  ELSE {})

\* st.multiselect, line 56, in a run whose date filter left s: not called
\* without the column; hands back a subset of its options
MultiselectValues(s) ==
    IF s.err # NoError \/ "route_name" \notin s.df.columns
    THEN {{}}
    ELSE SUBSET RouteOptions(s.df)

Widgets(file) ==
    UNION {{[date_raises  |-> d.date_raises,
             date_range   |-> d.date_range,
             route_filter |-> rf] :
               rf \in MultiselectValues(DateFilter(LoadData(file), d))} :
           d \in DateInputValues(LoadData(file))}

(***************************************************************************)
(* The workbooks the model uploads.  A workbook is the first sheet as      *)
(* pd.read_excel sees it: its headers and its rows.  Each family varies    *)
(* the cells of a few columns over every combination and keeps the other   *)
(* columns at DefaultRow.                                                  *)
(***************************************************************************)
AllHeaders == KnownHeaders \cup {"note"}

DateCells == Dates \cup {Text}
RouteCells == RouteNames \cup {NullRoute}
CostCells == (0..MaxCost) \cup {Text}
CountCells == 0..MaxCount

Restrict(r, cols) == [h \in cols |-> r[h]]

SeqsUpTo(S, n) == UNION {[1..k -> S] : k \in 0..n}

FilesOver(cols, rowset) ==
    {[columns |-> cols, rows |-> rs] :
        rs \in SeqsUpTo({Restrict(r, cols) : r \in rowset}, MaxRows)}

DefaultRow ==
    [MX02_assign_date     |-> 1,
     job_id               |-> 101,
     MX12_num_deliveries  |-> 1,
     MX12_num_items       |-> 1,
     MX12_total_cost      |-> 1,
     MX12_additional_cost |-> 0,
     MX12_route_name      |-> "A",
     MX12_success_count   |-> 1,
     MX12_fail_count      |-> 0,
     note                 |-> 0]

\* dates and routes: what the two filters read
FilterRows ==
    {[DefaultRow EXCEPT !.MX02_assign_date = d, !.MX12_route_name = r] :
        d \in DateCells, r \in RouteCells}

\* jobs, routes and costs: what the route table reads
RoutePerfRows ==
    {[DefaultRow EXCEPT !.job_id = j, !.MX12_route_name = r, !.MX12_total_cost = c] :
        j \in JobIds, r \in RouteCells, c \in 1..MaxCost}

\* the two cost cells
CostRows ==
    {[DefaultRow EXCEPT !.MX12_total_cost = c, !.MX12_additional_cost = a] :
        c \in CostCells, a \in CostCells}

\* the two delivery counts, on two routes
DeliveryRows ==
    {[DefaultRow EXCEPT !.MX12_success_count = k, !.MX12_fail_count = f,
                        !.MX12_route_name = r] :
        k \in CountCells, f \in CountCells, r \in RouteNames}

NoDate == KnownHeaders \ {"MX02_assign_date"}

FilterFiles ==
    UNION {FilesOver(KnownHeaders \ gone, FilterRows) :
              gone \in SUBSET {"MX02_assign_date", "MX12_route_name"}}
RouteFiles == FilesOver(NoDate, RoutePerfRows)
CostFiles ==
    UNION {FilesOver(NoDate \ gone, CostRows) :
              gone \in SUBSET {"MX12_total_cost", "MX12_additional_cost"}}
DeliveryFiles == FilesOver(NoDate, DeliveryRows)
\* every set of headers, over rows of default cells
ColumnFiles == UNION {FilesOver(cols, {DefaultRow}) : cols \in SUBSET AllHeaders}

Files == FilterFiles \cup RouteFiles \cup CostFiles \cup DeliveryFiles \cup ColumnFiles

\* one run of the script, lines 25-192, with the widgets handing back ui
Run(f, ui) ==
    LET out == Script(f, ui)
    IN /\ before' = IF pc = "done" /\ uploaded_file = <<f>> /\ page.err = NoError
                    THEN <<Len(page.df.rows)>> ELSE <<>>
       /\ uploaded_file' = <<f>>
       /\ date_range' = ui.date_range
       /\ route_filter' = ui.route_filter
       /\ page' = out
       /\ pc' = "done"

(***************************************************************************)
(* The pipeline applied once to each workbook of Files.                    *)
(***************************************************************************)
InitPipeline ==
    /\ uploaded_file \in {<<f>> : f \in Files}
    /\ date_range = <<>>
    /\ route_filter = {}
    /\ page = Blank
    /\ pc = "run"
    /\ before = <<>>

RunScript ==
    /\ pc = "run"
    /\ \E ui \in Widgets(uploaded_file[1]) : Run(uploaded_file[1], ui)

NextPipeline == RunScript

SpecPipeline == InitPipeline /\ [][NextPipeline]_vars

(***************************************************************************)
(* A session: the user uploads workbooks, changes the filters and clears   *)
(* the uploader, in any order.  When a workbook replaces another the       *)
(* widgets keep or lose their values as Streamlit decides, so the run that *)
(* follows may see any value they can hold.                                *)
(***************************************************************************)
FixtureRow(d, j, r, c) ==
    [DefaultRow EXCEPT !.MX02_assign_date = d, !.job_id = j,
                       !.MX12_route_name = r, !.MX12_total_cost = c]

SessionFiles ==
    {[columns |-> KnownHeaders,
      rows |-> <<FixtureRow(1, 101, "A", 100), FixtureRow(2, 102, "A", 300),
                 FixtureRow(Text, 103, "B", 50)>>],
     [columns |-> KnownHeaders,
      rows |-> <<FixtureRow(2, 101, "B", 7), FixtureRow(1, 101, NullRoute, 5)>>],
     [columns |-> NoDate,
      rows |-> <<Restrict(FixtureRow(1, 101, "A", 2), NoDate),
                 Restrict(FixtureRow(1, 102, "B", 3), NoDate)>>],
     [columns |-> KnownHeaders,
      rows |-> <<FixtureRow(2, 101, "B", 4), FixtureRow(1, 101, "A", 4),
                 FixtureRow(2, 102, "A", 1)>>],
     [columns |-> KnownHeaders, rows |-> <<>>]}

Init ==
    /\ uploaded_file = <<>>
    /\ date_range = <<>>
    /\ route_filter = {}
    /\ page = Blank
    /\ pc = "stop"
    /\ before = <<>>

Upload ==
    \E f \in SessionFiles : \E ui \in Widgets(f) : Run(f, ui)

ChangeFilter ==
    /\ pc = "done"
    /\ \E ui \in Widgets(uploaded_file[1]) :
          /\ <<ui.date_range, ui.route_filter>> # <<date_range, route_filter>>
          /\ Run(uploaded_file[1], ui)

\* the user removes the file from the uploader: the run stops at line 29
ClearFile ==
    /\ pc = "done"
    /\ uploaded_file' = <<>>
    /\ date_range' = <<>>
    /\ route_filter' = {}
    /\ page' = Blank
    /\ pc' = "stop"
    /\ before' = <<>>

Next == Upload \/ ChangeFilter \/ ClearFile

Spec == Init /\ [][Next]_vars

(***************************************************************************)
(* Properties.  The helpers below state what a claim expects by counting   *)
(* over sets of rows; they share nothing with the operators of the script. *)
(***************************************************************************)
Done == pc = "done"
Loaded == Done /\ page.err \notin {"AttributeError@40", "AttributeError@41"}
Filtered == Loaded /\ page.err # "ValueError@50"
TheFile == uploaded_file[1]

RECURSIVE Total(_, _)
\* the sum of val[i] over the i of the set S
Total(S, val) ==
    IF S = {} THEN 0
    ELSE LET i == CHOOSE j \in S : TRUE IN val[i] + Total(S \ {i}, val)

Labels(df) == {df.rows[i].index : i \in DOMAIN df.rows}
CellsOf(df, c) == [i \in DOMAIN df.rows |-> df.rows[i].cells[c]]

DateFilterOn == "assign_date" \in page.df_loaded.columns /\ Len(date_range) = 2
RouteFilterOn == "route_name" \in page.df_loaded.columns /\ route_filter # {}

\* C1 (as claimed), for a sheet that has rows and every known header but,
\* possibly, the cost ones: after normalization every row has cost_sum =
\* total_cost + additional_cost, also when a cost column is absent from the
\* upload: the absent field is then 0 in every row and normalization raises no
\* error.
C1_CostSumAlways ==
    /\ Done
    /\ TheFile.rows # <<>>
    /\ KnownHeaders \ {"MX12_total_cost", "MX12_additional_cost"} \subseteq TheFile.columns
    =>
      /\ page.err \notin {"AttributeError@40", "AttributeError@41"}
      /\ \A i \in DOMAIN page.df_loaded.rows :
            LET cells == page.df_loaded.rows[i].cells
            IN /\ cells["cost_sum"] = cells["total_cost"] + cells["additional_cost"]
               /\ "MX12_total_cost" \notin TheFile.columns => cells["total_cost"] = 0
               /\ "MX12_additional_cost" \notin TheFile.columns
                     => cells["additional_cost"] = 0

\* C2: filter keeps a row iff (no date filter is active, or its assign_date is
\* not null and start <= assign_date <= end) and (no route filter is active, or
\* its route_name is in the selected set).
C2_FilterKeepsIff ==
    Filtered =>
      \A i \in DOMAIN page.df_loaded.rows :
         LET row == page.df_loaded.rows[i]
         IN row.index \in Labels(page.df) <=>
              /\ \/ ~DateFilterOn
                 \/ /\ row.cells["assign_date"] # NaT
                    /\ date_range[1] <= row.cells["assign_date"]
                    /\ row.cells["assign_date"] <= date_range[2]
              /\ \/ ~RouteFilterOn
                 \/ row.cells["route_name"] \in route_filter

\* both filters active, a row with a null date excluded, another row kept
C2_Witness ==
    /\ Filtered /\ DateFilterOn /\ RouteFilterOn
    /\ \E i \in DOMAIN page.df_loaded.rows :
          /\ page.df_loaded.rows[i].cells["assign_date"] = NaT
          /\ page.df_loaded.rows[i].index \notin Labels(page.df)
    /\ page.df.rows # <<>>

\* C3 (as claimed), for a workbook with every known header and a date widget
\* that was given dates: when the filtered set is empty every aggregate is
\* computed without raising and is zero or empty.
C3_EmptyDegrades ==
    /\ Filtered
    /\ KnownHeaders \subseteq TheFile.columns
    /\ page.date_asked /\ page.date_default[1] # NaT
    /\ page.df.rows = <<>>
    => /\ page.err = NoError
       /\ page.total_jobs = 0 /\ page.total_deliveries = 0 /\ page.total_items = 0
       /\ page.trend_df = <<>>
       /\ page.total_cost_sum = 0
       /\ page.avg_cost_job.den # 0 /\ page.avg_cost_job.num = 0
       /\ page.route_perf = <<>>

RouteJobsSum == Total(DOMAIN page.route_perf, [k \in DOMAIN page.route_perf |->
                                                  page.route_perf[k].total_jobs])
AllRouted == \A i \in DOMAIN page.df.rows : page.df.rows[i].cells["route_name"] # NullRoute
JobOnTwoRoutes ==
    \E i, j \in DOMAIN page.df.rows :
       /\ page.df.rows[i].cells["job_id"] = page.df.rows[j].cells["job_id"]
       /\ page.df.rows[i].cells["route_name"] # NullRoute
       /\ page.df.rows[j].cells["route_name"] # NullRoute
       /\ page.df.rows[i].cells["route_name"] # page.df.rows[j].cells["route_name"]
BothJobCounts == Done /\ {"total_jobs", "route_perf"} \subseteq page.shown

\* C4 (as claimed): the routes' totalJobs sum to at most operationalSummary's
\* totalJobs, with equality when every row has a route, also when a job_id
\* appears in rows of different routes.
C4_RouteJobsAtMostTotal ==
    BothJobCounts =>
      /\ RouteJobsSum <= page.total_jobs
      /\ AllRouted => RouteJobsSum = page.total_jobs

\* C4 (amended): when no job_id appears in rows of different routes, the
\* routes' totalJobs sum to at most operationalSummary's totalJobs, with
\* equality when every row has a route.
C4_RouteJobsAmended ==
    BothJobCounts /\ ~JobOnTwoRoutes =>
      /\ RouteJobsSum <= page.total_jobs
      /\ AllRouted => RouteJobsSum = page.total_jobs

\* two jobs, each on one route, and a row without a route: the sum is below
\* totalJobs
C4_Witness ==
    /\ BothJobCounts /\ ~JobOnTwoRoutes /\ ~AllRouted
    /\ RouteJobsSum = 1 /\ page.total_jobs = 2

\* C5 (as claimed), for a sheet that has rows and every known header but,
\* possibly, these three: when job_id, num_deliveries or num_items is absent,
\* operationalSummary completes and reports 0 for it.
C5_AbsentColumnDegrades ==
    /\ Filtered
    /\ TheFile.rows # <<>>
    /\ KnownHeaders \ {"job_id", "MX12_num_deliveries", "MX12_num_items"}
          \subseteq TheFile.columns
    /\ \E h \in {"job_id", "MX12_num_deliveries", "MX12_num_items"} :
          h \notin TheFile.columns
    => /\ {"total_jobs", "total_deliveries", "total_items"} \subseteq page.shown
       /\ "job_id" \notin TheFile.columns => page.total_jobs = 0
       /\ "MX12_num_deliveries" \notin TheFile.columns => page.total_deliveries = 0
       /\ "MX12_num_items" \notin TheFile.columns => page.total_items = 0

SuccessSum == Total(DOMAIN page.df.rows, CellsOf(page.df, "success_count"))
FailSum == Total(DOMAIN page.df.rows, CellsOf(page.df, "fail_count"))
DeliveryShown == Done /\ "delivery" \in page.shown

\* C6: deliveryPerformance gives 0 and 0 when the success and fail sums over
\* the filtered set add to 0, and otherwise sum / (successSum + failSum) * 100
\* for each; never a division by zero.
C6_DeliveryPct ==
    DeliveryShown =>
      /\ page.success_pct.den # 0 /\ page.fail_pct.den # 0
      /\ IF SuccessSum + FailSum = 0
         THEN page.success_pct.num = 0 /\ page.fail_pct.num = 0
         ELSE /\ page.success_pct.num * (SuccessSum + FailSum)
                    = SuccessSum * 100 * page.success_pct.den
              /\ page.fail_pct.num * (SuccessSum + FailSum)
                    = FailSum * 100 * page.fail_pct.den

\* rows are left after filtering and their counts add to 0
C6_Witness == DeliveryShown /\ page.df.rows # <<>> /\ SuccessSum + FailSum = 0

\* C7: normalization keeps the row count, whatever the cells hold: the table
\* has the rows of the sheet, one for one and in order; an unparseable date
\* is null and a non-numeric cost is 0 in the row that held it.
C7_RowCountKept ==
    Done =>
      /\ Len(page.df_loaded.rows) = Len(TheFile.rows)
      /\ \A i \in DOMAIN page.df_loaded.rows :
            LET raw == TheFile.rows[i]
                cells == page.df_loaded.rows[i].cells
            IN /\ page.df_loaded.rows[i].index = i - 1
               /\ "MX02_assign_date" \in TheFile.columns =>
                     cells["assign_date"] = IF raw["MX02_assign_date"] = Text
                                            THEN NaT ELSE raw["MX02_assign_date"]
               /\ Loaded =>
                     /\ cells["total_cost"] = IF raw["MX12_total_cost"] = Text
                                              THEN 0 ELSE raw["MX12_total_cost"]
                     /\ cells["additional_cost"] = IF raw["MX12_additional_cost"] = Text
                                                   THEN 0 ELSE raw["MX12_additional_cost"]

\* a sheet of two rows or more with an unparseable date, which became NaT in place
C7_Witness ==
    /\ Loaded /\ Len(TheFile.rows) >= 2
    /\ \E i \in DOMAIN TheFile.rows :
          /\ "MX02_assign_date" \in TheFile.columns
          /\ TheFile.rows[i]["MX02_assign_date"] = Text
          /\ page.df_loaded.rows[i].cells["assign_date"] = NaT

\* C8: filter is idempotent: the filters of this run applied to the table they
\* left give the same rows in the same order.
C8_FilterIdempotent ==
    Filtered =>
      Filters([Blank EXCEPT !.df = page.df, !.df_loaded = page.df],
              [date_raises |-> FALSE, date_range |-> date_range,
               route_filter |-> route_filter]).df = page.df

\* the route filter removed a row and kept one
C8_Witness ==
    /\ Filtered /\ RouteFilterOn
    /\ page.df.rows # <<>>
    /\ Len(page.df.rows) < Len(page.df_loaded.rows)

RoutesPresent ==
    {page.df.rows[i].cells["route_name"] : i \in DOMAIN page.df.rows} \ {NullRoute}
RowsOn(r) == {i \in DOMAIN page.df.rows : page.df.rows[i].cells["route_name"] = r}
RoutePerfShown == Done /\ "route_perf" \in page.shown

\* C9: routePerformance has one entry per distinct non-null route_name of the
\* filtered set, with totalJobs the number of distinct job_id of the route's
\* rows, totalCost the sum of their cost_sum and avgCost that sum over their
\* number; the route reported as cheapest has the least avgCost of all entries.
C9_RoutePerformance ==
    RoutePerfShown =>
      LET rp == page.route_perf IN
      /\ {rp[k].route_name : k \in DOMAIN rp} = RoutesPresent
      /\ Len(rp) = Cardinality(RoutesPresent)
      /\ \A k \in DOMAIN rp :
            LET on == RowsOn(rp[k].route_name)
                cost == Total(on, CellsOf(page.df, "cost_sum"))
            IN /\ rp[k].total_jobs
                    = Cardinality({page.df.rows[i].cells["job_id"] : i \in on})
               /\ rp[k].total_cost = cost
               /\ rp[k].avg_cost.den # 0
               /\ rp[k].avg_cost.num * Cardinality(on) = cost * rp[k].avg_cost.den
      /\ "cheapest" \in page.shown =>
            \E k \in DOMAIN rp :
               /\ rp[k].route_name = page.cheapest_name
               /\ rp[k].avg_cost = page.cheapest_value
               /\ \A j \in DOMAIN rp : ~RatLess(rp[j].avg_cost, rp[k].avg_cost)

\* two routes, and the cheapest is not the first of the table
C9_Witness ==
    /\ RoutePerfShown /\ "cheapest" \in page.shown
    /\ Len(page.route_perf) = 2
    /\ page.cheapest_name = page.route_perf[2].route_name
    /\ RatLess(page.route_perf[2].avg_cost, page.route_perf[1].avg_cost)

\* the labels of the rows of the uploaded sheet that pass the widgets' values
Passing ==
    LET f == TheFile
        dateOn == "MX02_assign_date" \in f.columns /\ Len(date_range) = 2
        routeOn == "MX12_route_name" \in f.columns /\ route_filter # {}
    IN {i \in DOMAIN f.rows :
          /\ dateOn => /\ f.rows[i]["MX02_assign_date"] # Text
                       /\ f.rows[i]["MX02_assign_date"] >= date_range[1]
                       /\ f.rows[i]["MX02_assign_date"] <= date_range[2]
          /\ routeOn => f.rows[i]["MX12_route_name"] \in route_filter}

\* C10: after any sequence of uploads and filter changes the filtered set and
\* the aggregates shown are those of the last uploaded file under the current
\* selection: no earlier selection and no earlier file narrows the result.
C10_DependsOnCurrentOnly ==
    Filtered =>
      /\ Len(page.df.rows) = Cardinality(Passing)
      /\ Labels(page.df) = {i - 1 : i \in Passing}
      /\ \A k \in DOMAIN page.df.rows :
            /\ page.df.rows[k].cells["job_id"] = TheFile.rows[page.df.rows[k].index + 1]["job_id"]
            /\ k > 1 => page.df.rows[k - 1].index < page.df.rows[k].index
      /\ "cost" \in page.shown =>
            page.total_cost_sum
               = Total(Passing, [i \in DOMAIN TheFile.rows |->
                                   TheFile.rows[i]["MX12_total_cost"]
                                      + TheFile.rows[i]["MX12_additional_cost"]])
      /\ "total_jobs" \in page.shown =>
            page.total_jobs = Cardinality({TheFile.rows[i]["job_id"] : i \in Passing})

\* a change of the filter that shows more rows than the run before it
C10_Witness == Filtered /\ before # <<>> /\ before[1] < Len(page.df.rows)
====
